---- MODULE Spec2Model ----
(***************************************************************************)
(* Model of the Delhi High Court case retrieval pipeline:                  *)
(*   src/app.py            render_search_tab, perform_case_search          *)
(*   src/court_scraper.py  CourtScraper, DatabaseManager, WebDriverManager *)
(* The target web site, the browser and the SQLite store are the           *)
(* environment: every call into them has a nondeterministic outcome.       *)
(***************************************************************************)
EXTENDS Integers, Sequences, FiniteSets, TLC

VARIABLES
    driver,          \* CourtScraper.driver: 0 is None, else a browser id
    form_handler,    \* CourtScraper.form_handler: 0 is None, else the browser it drives
    data_extractor,  \* CourtScraper.data_extractor: 0 is None, else the browser it reads
    browsers,        \* browser processes started so far: id -> "running" | "crashed" | "quit"
    quitLog,         \* browser ids on which driver.quit() was called, in call order
    pc,              \* position of the current invocation of search_case_details
    args,            \* arguments of the current invocation
    error_message,   \* local variable error_message
    case_data,       \* local variable case_data
    exc,             \* message of the exception in flight inside the try block
    steps,           \* pipeline steps attempted by this invocation, with their result
    progress,        \* percentages passed to progress_callback, in call order
    saveCalls,       \* arguments of the save_search_record calls of this invocation
    events,          \* "save" / "cleanup" calls of this invocation, in call order
    outcome,         \* "pending" | "returned" | "raised"
    retval,          \* value returned to the caller
    raisedMsg,       \* message of the exception raised to the caller
    db,              \* rows of table search_history
    cleanupExc,      \* what the last _cleanup call propagated to its caller
    invocations,     \* requests handled so far
    extraCleanups,   \* _cleanup calls made after an invocation ended
    reqRaw,          \* case number as typed into the form of the latest request
    uiError,         \* validation error shown by render_search_tab
    uiResult,        \* what perform_case_search reports
    uiTip,           \* guidance shown with a failure
    env,             \* what the target site and the browser answered to this invocation, in call order
    prev,            \* summary of the invocation that ended before the current one began
    fn,              \* the helper function under evaluation, "" if none
    input,           \* its input
    output,          \* its result, once evaluated
    tpc,             \* concurrent callers: position of each thread in search_case_details
    acquired,        \* concurrent callers: the browser each thread's create_driver returned, 0 if none
    touched          \* concurrent callers: <<thread, browser, operation>> performed so far

vars == <<driver, form_handler, data_extractor, browsers, quitLog, pc, args,
          error_message, case_data, exc, steps, progress, saveCalls, events,
          outcome, retval, raisedMsg, db, cleanupExc, invocations,
          extraCleanups, reqRaw, uiError, uiResult, uiTip, env, prev,
          fn, input, output, tpc, acquired, touched>>

scraperVars == <<driver, form_handler, data_extractor>>
uiVars == <<reqRaw, uiError, uiResult, uiTip>>
pureVars == <<fn, input, output>>
\* state no step of search_case_details touches
concVars == <<tpc, acquired, touched>>
otherVars == <<prev, pureVars, concVars>>

----------------------------------------------------------------------------
(* Bounds *)

MaxInvocations == 2
MaxExtraCleanups == 1
MaxLiveInvocations == 1

----------------------------------------------------------------------------
(* Values *)

NoStr == "<None>"                 \* Python None where a str is expected
NoneRec == [none |-> TRUE]        \* Python None where a dict is expected

BASE_URL == "https://delhihighcourt.nic.in/"
SEARCH_URL == "https://delhihighcourt.nic.in/app/get-case-type-status"

CaseTypes == {"W.P.(C)", "CRL.A."}
RawCaseNumbers == {"", " ", "12", "1a", "7 "}
Years == {2024}

\* no invocation has ended yet
NoSummary ==
    [valid |-> FALSE, case_type |-> "", case_number |-> "", filing_year |-> 0,
     progress_callback |-> FALSE, env |-> <<>>, steps |-> <<>>, saved |-> <<>>,
     outcome |-> "pending", retval |-> NoneRec, raisedMsg |-> NoStr]

\* messages of the exceptions the browser layer raises
EnvMessages == {"", "Message: chrome not reachable"}

\* orders links a results row can carry (None: no matching anchor)
OrdersLinks == {NoStr, "https://delhihighcourt.nic.in/app/case-orders?id=1"}

Digits == {"0", "1", "2", "3", "4", "5", "6", "7", "8", "9"}
Whitespace == {" "}

----------------------------------------------------------------------------
(* String helpers: Python str methods *)

Char(s, i) == SubSeq(s, i, i)

\* str.isdigit(): non-empty and every character a digit
IsDigit(s) == Len(s) > 0 /\ \A i \in 1..Len(s) : Char(s, i) \in Digits

RECURSIVE LStrip(_)
LStrip(s) ==
    IF Len(s) > 0 /\ Char(s, 1) \in Whitespace THEN LStrip(SubSeq(s, 2, Len(s))) ELSE s

RECURSIVE RStrip(_)
RStrip(s) ==
    IF Len(s) > 0 /\ Char(s, Len(s)) \in Whitespace THEN RStrip(SubSeq(s, 1, Len(s) - 1)) ELSE s

\* str.strip()
Strip(s) == RStrip(LStrip(s))

\* sub in s
Contains(s, sub) ==
    \E i \in 1..(Len(s) - Len(sub) + 1) : SubSeq(s, i, i + Len(sub) - 1) = sub

\* f"{case_type} {case_number}/{filing_year}"
FormatCaseNumber(case_type, case_number, filing_year) ==
    case_type \o " " \o case_number \o "/" \o ToString(filing_year)

----------------------------------------------------------------------------
(* DatabaseManager *)

\* dict.get(key, default)
Get(d, key, default) == IF key \in DOMAIN d THEN d[key] ELSE default

\* json.dumps(case_data)
JsonDumps(d) == <<"json", d>>

\* save_search_record storing the JSON of case_data for a failed search too
SearchHistoryRowAlwaysData(cd, success, em) ==
    [case_number   |-> Get(cd, "case_number", ""),
     case_type     |-> Get(cd, "case_type", ""),
     filing_year   |-> Get(cd, "filing_year", 0),
     case_data     |-> JsonDumps(cd),
     success       |-> success,
     error_message |-> em]

\* the row save_search_record inserts into search_history
SearchHistoryRow(cd, success, em) ==
    [case_number   |-> Get(cd, "case_number", ""),
     case_type     |-> Get(cd, "case_type", ""),
     filing_year   |-> Get(cd, "filing_year", 0),
     case_data     |-> IF success THEN JsonDumps(cd) ELSE <<"null">>,
     success       |-> success,
     error_message |-> em]

\* DatabaseManager.save_search_record: the INSERT either commits or fails
\* with sqlite3.Error, which is logged and swallowed
save_search_record(cd, success, em) ==
    \E committed \in BOOLEAN :
        /\ saveCalls' = Append(saveCalls, [case_data |-> cd, success |-> success,
                                           error_message |-> em, committed |-> committed])
        /\ events' = Append(events, "save")
        /\ db' = IF committed THEN Append(db, SearchHistoryRow(cd, success, em)) ELSE db

----------------------------------------------------------------------------
(* CourtScraper helpers *)

\* if progress_callback: progress_callback(label, pct)
Report(pct) == IF args.progress_callback THEN Append(progress, pct) ELSE progress

PctInit == 10
PctNavigate == 25
PctFill == 40
PctVerify == 60
PctSubmit == 70
PctExtract == 85
\* the orders milestone reported below the extraction milestone
PctOrdersLow == PctExtract - 5
PctOrders == 95
PctDone == 100

MsgFormFill == "Unable to fill search form"
MsgVerificationReworded == "Verification failed - please try again"
MsgVerification == "Security verification failed - please try again"
MsgSubmission == "Search submission failed"
MsgNotFound == "No case found with the provided details"
MsgUnknown == "Unknown error occurred during search"
MsgCreateDriver == "Failed to create WebDriver: "

BrowserRunning == driver # 0 /\ browsers[driver] = "running"

\* a failed step that does not stop the pipeline
StepGuardIgnored(ok, next) == next

\* "if not <step>(): error_message = ...; raise Exception(error_message)",
\* and the early "return False" of _fill_search_form
StepGuard(ok, next) == IF ok THEN next ELSE "except"

\* the step a bool-returning form step leads to, with the exception it raises
FormStep(name, ok, next, msg) ==
    LET target == StepGuard(ok, next) IN
    /\ steps' = Append(steps, [name |-> name, ok |-> ok])
    /\ env' = Append(env, IF ok THEN "ok" ELSE "failed")
    /\ pc' = target
    /\ exc' = IF target = "except" THEN msg ELSE exc
    /\ error_message' = IF target = "except" THEN msg ELSE error_message

\* _cleanup without its except clause: the failure of quit() propagates
cleanup_no_except(quitExc) == quitExc

\* the "except Exception" clause of _cleanup: the failure of quit() is
\* logged and not propagated
cleanup_except(quitExc) == NoStr

\* _cleanup that resets the references in its try block, after quit()
cleanup_reset_after_quit ==
    IF driver # 0
    THEN \E quitExc \in (IF browsers[driver] = "crashed" THEN {NoStr} \cup EnvMessages ELSE {NoStr}) :
            /\ quitLog' = Append(quitLog, driver)
            /\ browsers' = [browsers EXCEPT ![driver] = IF quitExc = NoStr THEN "quit" ELSE @]
            /\ cleanupExc' = cleanup_except(quitExc)
            /\ driver' = IF quitExc = NoStr THEN 0 ELSE driver
            /\ form_handler' = IF quitExc = NoStr THEN 0 ELSE form_handler
            /\ data_extractor' = IF quitExc = NoStr THEN 0 ELSE data_extractor
    ELSE /\ cleanupExc' = NoStr
         /\ UNCHANGED <<quitLog, browsers, driver, form_handler, data_extractor>>

\* CourtScraper._cleanup
cleanup ==
    IF driver # 0
    THEN \E quitExc \in (IF browsers[driver] = "crashed" THEN {NoStr} \cup EnvMessages ELSE {NoStr}) :
            /\ quitLog' = Append(quitLog, driver)
            /\ browsers' = [browsers EXCEPT ![driver] = IF quitExc = NoStr THEN "quit" ELSE @]
            /\ cleanupExc' = cleanup_except(quitExc)
            /\ driver' = 0
            /\ form_handler' = 0
            /\ data_extractor' = 0
    ELSE /\ cleanupExc' = NoStr
         /\ UNCHANGED <<quitLog, browsers, driver, form_handler, data_extractor>>

----------------------------------------------------------------------------
(* Initial state: no request made yet, CourtScraper.__init__ *)

MainInit ==
    /\ driver = 0
    /\ form_handler = 0
    /\ data_extractor = 0
    /\ browsers = <<>>
    /\ quitLog = <<>>
    /\ pc = "idle"
    /\ args = [case_type |-> "", case_number |-> "", filing_year |-> 0, progress_callback |-> FALSE, ui |-> FALSE]
    /\ error_message = NoStr
    /\ case_data = NoneRec
    /\ exc = NoStr
    /\ steps = <<>>
    /\ progress = <<>>
    /\ saveCalls = <<>>
    /\ events = <<>>
    /\ outcome = "pending"
    /\ retval = NoneRec
    /\ raisedMsg = NoStr
    /\ db = <<>>
    /\ cleanupExc = NoStr
    /\ invocations = 0
    /\ extraCleanups = 0
    /\ reqRaw = NoStr
    /\ uiError = ""
    /\ uiResult = ""
    /\ uiTip = ""
    /\ env = <<>>
    /\ prev = NoSummary

Threads == {1, 2}

\* no thread has called search_case_details
ConcIdle ==
    /\ tpc = [t \in Threads |-> "idle"]
    /\ acquired = [t \in Threads |-> 0]
    /\ touched = {}

\* no helper function is under evaluation while the pipeline runs
PureIdle ==
    /\ fn = ""
    /\ input = <<>>
    /\ output = <<>>

Init ==
    /\ MainInit
    /\ PureIdle
    /\ ConcIdle

\* what the caller of an invocation that has ended can observe of it,
\* together with what the site answered to it
Summary ==
    [valid |-> TRUE,
     case_type |-> args.case_type, case_number |-> args.case_number, filing_year |-> args.filing_year,
     progress_callback |-> args.progress_callback,
     env |-> env,
     steps |-> steps,
     saved |-> [i \in DOMAIN saveCalls |->
                  [case_data |-> saveCalls[i].case_data, success |-> saveCalls[i].success,
                   error_message |-> saveCalls[i].error_message]],
     outcome |-> outcome,
     retval |-> retval,
     raisedMsg |-> raisedMsg]

\* the per-invocation state at the first line of search_case_details
EnterSearch(case_type, case_number, filing_year, cb, ui) ==
    /\ env' = <<>>
    /\ UNCHANGED <<pureVars, concVars>>
    /\ args' = [case_type |-> case_type, case_number |-> case_number, filing_year |-> filing_year,
                progress_callback |-> cb, ui |-> ui]
    /\ error_message' = NoStr
    /\ case_data' = NoneRec
    /\ exc' = NoStr
    /\ steps' = <<>>
    /\ progress' = <<>>
    /\ saveCalls' = <<>>
    /\ events' = <<>>
    /\ outcome' = "pending"
    /\ retval' = NoneRec
    /\ raisedMsg' = NoStr
    /\ cleanupExc' = NoStr
    /\ invocations' = invocations + 1
    /\ extraCleanups' = 0

----------------------------------------------------------------------------
(* app.py *)

\* render_search_tab without the isdigit() check
ValidateNonEmptyOnly(case_number) ==
    IF Strip(case_number) = "" THEN "Please enter a case number" ELSE ""

\* the input validation of render_search_tab: the error it shows, "" if none
ValidateCaseNumber(case_number) ==
    IF Strip(case_number) = "" THEN "Please enter a case number"
    ELSE IF ~IsDigit(case_number) THEN "Case number should contain only digits"
    ELSE ""

\* render_search_tab: the form is submitted; a valid request goes on to
\* perform_case_search, which builds a CourtScraper and calls
\* search_case_details with update_progress as the callback
render_search_tab ==
    /\ pc \in {"idle", "done"}
    /\ invocations < MaxInvocations
    /\ \E case_type \in CaseTypes, case_number \in RawCaseNumbers, filing_year \in Years :
        LET err == ValidateCaseNumber(case_number) IN
        /\ reqRaw' = case_number
        /\ uiError' = err
        /\ uiResult' = ""
        /\ uiTip' = ""
        /\ EnterSearch(case_type, Strip(case_number), filing_year, TRUE, TRUE)
        /\ IF err = ""
           THEN /\ pc' = "setup"
                /\ driver' = 0
                /\ form_handler' = 0
                /\ data_extractor' = 0
           ELSE /\ pc' = "idle"
                /\ UNCHANGED scraperVars
    /\ UNCHANGED <<browsers, quitLog, db, prev>>

\* the guidance perform_case_search shows for a failure message
ErrorGuidance(error_msg) ==
    IF Contains(error_msg, "Security verification failed") THEN "retry later"
    ELSE IF Contains(error_msg, "No case found") THEN "verify inputs"
    ELSE ""

\* what perform_case_search reports once search_case_details has ended
PerformCaseSearchResult(kind, value) ==
    IF kind = "raised" THEN "failed"
    ELSE IF value # NoneRec THEN "found"
    ELSE "not found"

----------------------------------------------------------------------------
(* CourtScraper.search_case_details, one action per pipeline step *)

\* a direct call of search_case_details on the scraper object, with or
\* without a progress callback
CallWithin(bound) ==
    /\ pc \in {"idle", "done"}
    /\ invocations < bound
    /\ \E case_type \in CaseTypes, case_number \in {n \in RawCaseNumbers : IsDigit(n)},
          filing_year \in Years, cb \in BOOLEAN :
        EnterSearch(case_type, case_number, filing_year, cb, FALSE)
    /\ pc' = "setup"
    /\ reqRaw' = NoStr
    /\ uiError' = ""
    /\ uiResult' = ""
    /\ uiTip' = ""
    /\ UNCHANGED <<scraperVars, browsers, quitLog, db>>

CallSearchCaseDetails == CallWithin(MaxInvocations)

search_case_details ==
    /\ CallSearchCaseDetails
    /\ prev' = prev

\* the same call, with the invocation that ended before it kept for comparison
search_case_details_again ==
    /\ CallSearchCaseDetails
    /\ prev' = IF pc = "done" THEN Summary ELSE NoSummary

\* WebDriverManager.create_driver: "ok", "no browser" (both attempts to start
\* Chrome failed), or "config failed" (Chrome started, then
\* set_page_load_timeout or execute_script raised)
CreateDriverOutcomes == {"ok", "no browser", "config failed"}

\* progress 10, then _setup_browser
SetupBrowser ==
    /\ pc = "setup"
    /\ progress' = Report(PctInit)
    /\ \E res \in CreateDriverOutcomes, m \in EnvMessages :
        /\ steps' = Append(steps, [name |-> "setup", ok |-> (res = "ok")])
        /\ env' = Append(env, IF res = "ok" THEN res ELSE res \o ": " \o m)
        /\ browsers' = IF res = "no browser" THEN browsers ELSE Append(browsers, "running")
        /\ IF res = "ok"
           THEN /\ driver' = Len(browsers) + 1
                /\ form_handler' = Len(browsers) + 1
                /\ data_extractor' = Len(browsers) + 1
                /\ exc' = exc
                /\ pc' = "navigate"
           ELSE /\ UNCHANGED scraperVars
                /\ exc' = IF res = "no browser" THEN MsgCreateDriver \o m ELSE m
                /\ pc' = "except"
    /\ UNCHANGED <<quitLog, args, error_message, case_data, saveCalls, events, outcome, retval,
                   raisedMsg, db, cleanupExc, invocations, extraCleanups, uiVars, otherVars>>

\* the browser process dies while the invocation is using it
BrowserCrash ==
    /\ pc \in {"navigate", "fill_case_type", "fill_case_number", "fill_filing_year",
               "captcha", "submit", "extract", "orders", "save", "except", "finally"}
    /\ BrowserRunning
    /\ browsers' = [browsers EXCEPT ![driver] = "crashed"]
    /\ UNCHANGED <<scraperVars, quitLog, pc, args, error_message, case_data, exc, steps, progress,
                   saveCalls, events, outcome, retval, raisedMsg, db, cleanupExc, invocations,
                   extraCleanups, uiVars, otherVars, env>>

stepFrame == <<scraperVars, browsers, quitLog, args, case_data, saveCalls, events, outcome, retval,
               raisedMsg, db, cleanupExc, invocations, extraCleanups, uiVars, otherVars>>

\* progress 25, driver.get(SEARCH_URL), wait_for_page_load
Navigate ==
    /\ pc = "navigate"
    /\ progress' = Report(PctNavigate)
    /\ \E m \in {NoStr} \cup EnvMessages :
        /\ (m = NoStr) => BrowserRunning
        /\ steps' = Append(steps, [name |-> "navigate", ok |-> (m = NoStr)])
        /\ env' = Append(env, m)
        /\ pc' = IF m = NoStr THEN "fill_case_type" ELSE "except"
        /\ exc' = IF m = NoStr THEN exc ELSE m
    /\ UNCHANGED <<stepFrame, error_message>>

\* progress 40, _fill_search_form: fill_case_type
FillCaseType ==
    /\ pc = "fill_case_type"
    /\ progress' = Report(PctFill)
    /\ \E ok \in BOOLEAN :
        /\ ok => BrowserRunning
        /\ FormStep("fill_case_type", ok, "fill_case_number", MsgFormFill)
    /\ UNCHANGED stepFrame

\* _fill_search_form: fill_case_number
FillCaseNumber ==
    /\ pc = "fill_case_number"
    /\ \E ok \in BOOLEAN :
        /\ ok => BrowserRunning
        /\ FormStep("fill_case_number", ok, "fill_filing_year", MsgFormFill)
    /\ UNCHANGED <<stepFrame, progress>>

\* _fill_search_form: fill_filing_year
FillFilingYear ==
    /\ pc = "fill_filing_year"
    /\ \E ok \in BOOLEAN :
        /\ ok => BrowserRunning
        /\ FormStep("fill_filing_year", ok, "captcha", MsgFormFill)
    /\ UNCHANGED <<stepFrame, progress>>

\* progress 60, form_handler.solve_captcha()
SolveCaptcha ==
    /\ pc = "captcha"
    /\ progress' = Report(PctVerify)
    /\ \E ok \in BOOLEAN :
        /\ ok => BrowserRunning
        /\ FormStep("captcha", ok, "submit", MsgVerification)
    /\ UNCHANGED stepFrame

\* progress 70, form_handler.submit_form()
SubmitForm ==
    /\ pc = "submit"
    /\ progress' = Report(PctSubmit)
    /\ \E ok \in BOOLEAN :
        /\ ok => BrowserRunning
        /\ FormStep("submit", ok, "extract", MsgSubmission)
    /\ UNCHANGED stepFrame

\* str.startswith
StartsWith(s, prefix) == Len(s) >= Len(prefix) /\ SubSeq(s, 1, Len(prefix)) = prefix

SITE_ORIGIN == "https://delhihighcourt.nic.in"

\* urllib.parse.urljoin(base, url) for the base URL of the site, which has
\* the path "/": a URL with a scheme is kept, an empty one gives the base, a
\* path from the root replaces the path, any other is appended to the base
UrlJoin(base, url) ==
    IF url = "" THEN base
    ELSE IF StartsWith(url, "http://") \/ StartsWith(url, "https://") THEN url
    ELSE IF StartsWith(url, "/") THEN SITE_ORIGIN \o url
    ELSE base \o url

\* a <tr> of an orders table: its number of cells, whether reading it fails
\* ("cells": row.find_all raises, "parse": an exception inside
\* _parse_order_row), and the href of the anchor of its link cell (NoStr:
\* the cell has no anchor with an href)
OrderRow(c, f, h) == [cells |-> c, fails |-> f, href |-> h]

\* DataExtractor._parse_order_row
parse_order_row(row, index) ==
    IF row.fails = "parse" THEN NoneRec
    ELSE LET a_tag == row.href # NoStr
             pdf_link ==
                 IF ~a_tag THEN NoStr
                 ELSE IF row.href # "" /\ ~StartsWith(row.href, "http")
                 THEN UrlJoin(BASE_URL, row.href)
                 ELSE row.href IN
         [order_index |-> index + 1,
          date |-> IF row.cells > 2 THEN "01/02/2024" ELSE "Date not available",
          case_info |-> IF a_tag THEN "ORDER" ELSE "Not Available",
          pdf_link |-> pdf_link]

\* the for loop of extract_orders_data, from index i on
RECURSIVE OrdersLoop(_, _, _)
OrdersLoop(rows, i, orders) ==
    IF i >= Len(rows) THEN orders
    ELSE LET row == rows[i + 1] IN
         IF row.fails = "cells" THEN OrdersLoop(rows, i + 1, orders)
         ELSE IF row.cells >= 2
         THEN LET order_data == parse_order_row(row, i) IN
              IF order_data # NoneRec
              THEN OrdersLoop(rows, i + 1, Append(orders, order_data))
              ELSE OrdersLoop(rows, i + 1, orders)
         ELSE OrdersLoop(rows, i + 1, orders)

\* the loop without its inner try: a failing row ends in the outer handler
RECURSIVE OrdersLoopUnguarded(_, _, _)
OrdersLoopUnguarded(rows, i, orders) ==
    IF i >= Len(rows) THEN orders
    ELSE LET row == rows[i + 1] IN
         IF row.fails = "cells" THEN <<>>
         ELSE IF row.cells >= 2
         THEN LET order_data == parse_order_row(row, i) IN
              IF order_data # NoneRec
              THEN OrdersLoopUnguarded(rows, i + 1, Append(orders, order_data))
              ELSE OrdersLoopUnguarded(rows, i + 1, orders)
         ELSE OrdersLoopUnguarded(rows, i + 1, orders)

\* an orders page: whether loading it raises, whether it has an orders
\* table, whether the table has a tbody, and the <tr> elements of the tbody
\* (of the table when there is no tbody)
OrdersPage(n, t, b, r) == [nav |-> n, table |-> t, tbody |-> b, trs |-> r]

\* tbody.find_all('tr') if tbody else table.find_all('tr')[1:]
BodyRows(page) ==
    IF page.tbody \/ page.trs = <<>> THEN page.trs ELSE Tail(page.trs)

extract_orders_data_unguarded(page) ==
    IF page.nav = "raises" THEN <<>>
    ELSE IF ~page.table THEN <<>>
    ELSE OrdersLoopUnguarded(BodyRows(page), 0, <<>>)

\* DataExtractor.extract_orders_data
extract_orders_data(page) ==
    IF page.nav = "raises" THEN <<>>
    ELSE IF ~page.table THEN <<>>
    ELSE OrdersLoop(BodyRows(page), 0, <<>>)

\* orders pages the site can serve: one that fails to load, one without an
\* orders table, one with a single order row
OrdersPages ==
    {OrdersPage("raises", FALSE, FALSE, <<>>),
     OrdersPage("ok", FALSE, FALSE, <<>>),
     OrdersPage("ok", TRUE, TRUE, <<OrderRow(3, "no", NoStr)>>)}

\* what the log of site answers says about an orders page
OrdersPageKind(page) ==
    IF page.nav = "raises" THEN "raises"
    ELSE IF ~page.table THEN "no table"
    ELSE ToString(Len(page.trs)) \o " rows"

\* the record _parse_case_row builds for a results row whose case-info cell
\* carries the orders link `link` (NoStr: no link)
ParsedCaseRow(case_type, case_number, filing_year, link) ==
    [case_number |-> FormatCaseNumber(case_type, case_number, filing_year),
     case_type   |-> case_type,
     filing_year |-> ToString(filing_year),
     orders_link |-> link]

\* a missing record raised as an error instead of returned as None
ExtractNextRaising(cd) ==
    IF cd = NoneRec THEN "except"
    ELSE IF cd.orders_link # NoStr THEN "orders"
    ELSE "save"

\* "if not case_data: ... return None", then "if case_data.get('orders_link')"
ExtractNext(cd) ==
    IF cd = NoneRec THEN "finally"
    ELSE IF cd.orders_link # NoStr THEN "orders"
    ELSE "save"

\* a <tr> of a results table: its number of cells, whether reading it fails
\* ("cells": row.find_all raises, "parse": an exception inside
\* _parse_case_row), and the orders link of its case-info cell
CaseRow(c, f, l) == [cells |-> c, fails |-> f, link |-> l]

\* a results page: whether reading or parsing its source raises, whether it
\* has a results table, whether the table has a tbody, and the <tr> elements
\* of the tbody (of the table when there is no tbody)
CasePage(src, t, b, r) == [source |-> src, table |-> t, tbody |-> b, trs |-> r]

\* the for loop of extract_case_data from row i on; "raised" when reading a
\* row raises
RECURSIVE CaseLoop(_, _, _, _, _)
CaseLoop(rows, i, case_type, case_number, filing_year) ==
    IF i > Len(rows) THEN NoneRec
    ELSE LET row == rows[i] IN
         IF row.fails = "cells" THEN [raised |-> TRUE]
         ELSE IF row.cells >= 3 /\ row.fails = "no"
         THEN ParsedCaseRow(case_type, case_number, filing_year, row.link)
         ELSE CaseLoop(rows, i + 1, case_type, case_number, filing_year)

\* extract_case_data that keeps the first row of a table without tbody
extract_case_data_with_header(page, case_type, case_number, filing_year) ==
    IF page.source = "raises" THEN NoneRec
    ELSE IF ~page.table THEN NoneRec
    ELSE IF page.trs = <<>> THEN NoneRec
    ELSE LET found == CaseLoop(page.trs, 1, case_type, case_number, filing_year) IN
         IF found = [raised |-> TRUE] THEN NoneRec ELSE found

\* DataExtractor.extract_case_data: every exception ends in "return None"
extract_case_data(page, case_type, case_number, filing_year) ==
    IF page.source = "raises" THEN NoneRec
    ELSE IF ~page.table THEN NoneRec
    ELSE IF BodyRows(page) = <<>> THEN NoneRec
    ELSE LET found == CaseLoop(BodyRows(page), 1, case_type, case_number, filing_year) IN
         IF found = [raised |-> TRUE] THEN NoneRec ELSE found

\* whether extract_case_data ran into an exception on the page
ParseFailure(page) ==
    \/ page.source = "raises"
    \/ /\ page.table
       /\ CaseLoop(BodyRows(page), 1, "", "", 0) = [raised |-> TRUE]

\* results pages the site can serve: one whose source cannot be read, one
\* without a results table, one whose first row cannot be read, and one with
\* a case row for each orders link
CasePages ==
    {CasePage("raises", FALSE, FALSE, <<>>),
     CasePage("ok", FALSE, FALSE, <<>>),
     CasePage("ok", TRUE, TRUE, <<CaseRow(4, "cells", NoStr)>>)}
    \cup {CasePage("ok", TRUE, TRUE, <<CaseRow(4, "no", l)>>) : l \in OrdersLinks}

\* the page extract_case_data gets: the source of a crashed browser cannot
\* be read
PageSeen(page) == IF BrowserRunning THEN page ELSE CasePage("raises", FALSE, FALSE, <<>>)

\* progress 85, data_extractor.extract_case_data(...)
ExtractCaseData ==
    /\ pc = "extract"
    /\ progress' = Report(PctExtract)
    /\ \E page \in CasePages :
        LET cd == extract_case_data(PageSeen(page), args.case_type, args.case_number,
                                    args.filing_year)
            target == ExtractNext(cd) IN
        /\ steps' = Append(steps, [name |-> "extract", ok |-> (cd # NoneRec)])
        /\ env' = Append(env, IF ParseFailure(PageSeen(page)) THEN "parse failure"
                              ELSE IF cd = NoneRec THEN "no record"
                              ELSE "record, orders link " \o cd.orders_link)
        /\ case_data' = cd
        /\ error_message' = IF cd = NoneRec THEN MsgNotFound ELSE error_message
        /\ pc' = target
        /\ outcome' = IF target = "finally" THEN "returning" ELSE outcome
        /\ exc' = IF target = "except" THEN MsgNotFound ELSE exc
    /\ UNCHANGED <<scraperVars, browsers, quitLog, args, saveCalls, events, retval, raisedMsg, db,
                   cleanupExc, invocations, extraCleanups, uiVars, otherVars>>

\* an orders step whose failure to load the page is raised to the caller
ExtractOrdersRaising ==
    /\ pc = "orders"
    /\ progress' = Report(PctOrders)
    /\ \E page \in OrdersPages :
        LET failed == ~BrowserRunning \/ page.nav = "raises" IN
        /\ steps' = Append(steps, [name |-> "orders", ok |-> TRUE])
        /\ env' = Append(env, "orders: " \o (IF BrowserRunning THEN OrdersPageKind(page)
                                                              ELSE "raises"))
        /\ case_data' = IF failed THEN case_data
                        ELSE ("orders" :> extract_orders_data(page)) @@ case_data
        /\ pc' = IF failed THEN "except" ELSE "save"
        /\ exc' = IF failed THEN "Orders extraction failed" ELSE exc
    /\ UNCHANGED <<scraperVars, browsers, quitLog, args, error_message, saveCalls, events,
                   outcome, retval, raisedMsg, db, cleanupExc, invocations, extraCleanups, uiVars, otherVars>>

\* progress 95, data_extractor.extract_orders_data(case_data['orders_link'])
ExtractOrders ==
    /\ pc = "orders"
    /\ progress' = Report(PctOrders)
    /\ \E page \in OrdersPages :
        LET orders == IF BrowserRunning THEN extract_orders_data(page) ELSE <<>> IN
        /\ steps' = Append(steps, [name |-> "orders", ok |-> TRUE])
        /\ env' = Append(env, "orders: " \o (IF BrowserRunning THEN OrdersPageKind(page)
                                                              ELSE "raises"))
        /\ case_data' = ("orders" :> orders) @@ case_data
    /\ pc' = "save"
    /\ UNCHANGED <<scraperVars, browsers, quitLog, args, error_message, exc, saveCalls, events,
                   outcome, retval, raisedMsg, db, cleanupExc, invocations, extraCleanups, uiVars, otherVars>>

\* the save of a successful search done only when a callback was given
SaveSuccessOnlyWithCallback ==
    /\ pc = "save"
    /\ progress' = Report(PctDone)
    /\ IF args.progress_callback
       THEN save_search_record(case_data, TRUE, NoStr)
       ELSE UNCHANGED <<saveCalls, events, db>>
    /\ retval' = case_data
    /\ outcome' = "returning"
    /\ pc' = "finally"
    /\ UNCHANGED <<scraperVars, browsers, quitLog, args, error_message, case_data, exc, steps,
                   raisedMsg, cleanupExc, invocations, extraCleanups, uiVars, otherVars, env>>

\* progress 100, save_search_record(case_data, success=True), return case_data
SaveSuccess ==
    /\ pc = "save"
    /\ progress' = Report(PctDone)
    /\ save_search_record(case_data, TRUE, NoStr)
    /\ retval' = case_data
    /\ outcome' = "returning"
    /\ pc' = "finally"
    /\ UNCHANGED <<scraperVars, browsers, quitLog, args, error_message, case_data, exc, steps,
                   raisedMsg, cleanupExc, invocations, extraCleanups, uiVars, otherVars, env>>

\* str(e) or "Unknown error occurred during search"
ErrorMessageOf(e) == IF e = "" THEN MsgUnknown ELSE e

\* failed_data of the except clause
FailedData(case_type, case_number, filing_year) ==
    [case_number |-> FormatCaseNumber(case_type, case_number, filing_year),
     case_type   |-> case_type,
     filing_year |-> filing_year]

\* the except clause: save the failed search, raise Exception(error_message)
ExceptClause ==
    /\ pc = "except"
    /\ LET msg == ErrorMessageOf(exc) IN
        /\ error_message' = msg
        /\ save_search_record(FailedData(args.case_type, args.case_number, args.filing_year), FALSE, msg)
        /\ exc' = msg
    /\ outcome' = "raising"
    /\ pc' = "finally"
    /\ UNCHANGED <<scraperVars, browsers, quitLog, args, case_data, steps, progress, retval,
                   raisedMsg, cleanupExc, invocations, extraCleanups, uiVars, otherVars, env>>

\* _cleanup called at the end of the try block only: skipped when raising
ReleaseOnReturnOnly ==
    IF outcome = "raising"
    THEN UNCHANGED <<scraperVars, browsers, quitLog, cleanupExc, events>>
    ELSE cleanup /\ events' = Append(events, "cleanup")

\* the finally clause: self._cleanup()
ReleaseOnExit ==
    /\ cleanup
    /\ events' = Append(events, "cleanup")

\* a finally clause that never ends when the browser has crashed: quit()
\* waits for an answer without a bound
FinallyClauseQuitHangs ==
    /\ pc = "finally"
    /\ driver # 0 => browsers[driver] # "crashed"
    /\ ReleaseOnExit
    /\ outcome' = IF outcome = "raising" THEN "raised" ELSE "returned"
    /\ raisedMsg' = IF outcome = "raising" THEN exc ELSE NoStr
    /\ pc' = "done"
    /\ uiResult' = IF args.ui
                   THEN PerformCaseSearchResult(IF outcome = "raising" THEN "raised" ELSE "returned", retval)
                   ELSE uiResult
    /\ uiTip' = IF args.ui /\ outcome = "raising" THEN ErrorGuidance(exc) ELSE uiTip
    /\ UNCHANGED <<args, error_message, case_data, exc, steps, progress, saveCalls, retval, db,
                   invocations, extraCleanups, reqRaw, uiError, otherVars, env>>

\* the finally clause runs, then control goes back to the caller, which for
\* a request from the form is perform_case_search
FinallyClause ==
    /\ pc = "finally"
    /\ ReleaseOnExit
    /\ outcome' = IF outcome = "raising" THEN "raised" ELSE "returned"
    /\ raisedMsg' = IF outcome = "raising" THEN exc ELSE NoStr
    /\ pc' = "done"
    /\ uiResult' = IF args.ui
                   THEN PerformCaseSearchResult(IF outcome = "raising" THEN "raised" ELSE "returned", retval)
                   ELSE uiResult
    /\ uiTip' = IF args.ui /\ outcome = "raising" THEN ErrorGuidance(exc) ELSE uiTip
    /\ UNCHANGED <<args, error_message, case_data, exc, steps, progress, saveCalls, retval, db,
                   invocations, extraCleanups, reqRaw, uiError, otherVars, env>>

\* _cleanup called again on the scraper after the invocation has ended
CleanupAgain ==
    /\ pc = "done"
    /\ extraCleanups < MaxExtraCleanups
    /\ cleanup
    /\ extraCleanups' = extraCleanups + 1
    /\ UNCHANGED <<pc, args, error_message, case_data, exc, steps, progress, saveCalls, events,
                   outcome, retval, raisedMsg, db, invocations, uiVars, otherVars, env>>

----------------------------------------------------------------------------

Next ==
    \/ render_search_tab
    \/ search_case_details
    \/ SetupBrowser
    \/ BrowserCrash
    \/ Navigate
    \/ FillCaseType
    \/ FillCaseNumber
    \/ FillFilingYear
    \/ SolveCaptcha
    \/ SubmitForm
    \/ ExtractCaseData
    \/ ExtractOrders
    \/ SaveSuccess
    \/ ExceptClause
    \/ FinallyClause
    \/ CleanupAgain

Spec == Init /\ [][Next]_vars

\* the steps of an invocation: each of them ends, its waits being bounded by
\* the page-load timeout, the WebDriverWait timeout or a fixed sleep
PipelineStep ==
    \/ SetupBrowser
    \/ Navigate
    \/ FillCaseType
    \/ FillCaseNumber
    \/ FillFilingYear
    \/ SolveCaptcha
    \/ SubmitForm
    \/ ExtractCaseData
    \/ ExtractOrders
    \/ SaveSuccess
    \/ ExceptClause
    \/ FinallyClause

\* direct calls only, without calls of _cleanup from outside
search_case_details_live ==
    /\ CallWithin(MaxLiveInvocations)
    /\ prev' = prev

NextLive ==
    \/ search_case_details_live
    \/ BrowserCrash
    \/ PipelineStep

\* an invocation that has started keeps taking its steps
SpecLive == Init /\ [][NextLive]_vars /\ WF_vars(PipelineStep)

\* direct calls only, each remembering the invocation before it
NextTwin ==
    \/ search_case_details_again
    \/ SetupBrowser
    \/ BrowserCrash
    \/ Navigate
    \/ FillCaseType
    \/ FillCaseNumber
    \/ FillFilingYear
    \/ SolveCaptcha
    \/ SubmitForm
    \/ ExtractCaseData
    \/ ExtractOrders
    \/ SaveSuccess
    \/ ExceptClause
    \/ FinallyClause

SpecTwin == Init /\ [][NextTwin]_vars

----------------------------------------------------------------------------
(* Properties *)

Ended == pc = "done"

SaveCount == Len(saveCalls)
CleanupCount == Cardinality({i \in DOMAIN events : events[i] = "cleanup"})

\* the step the invocation failed at, "" if no step failed
FailedStep == IF steps # <<>> /\ ~steps[Len(steps)].ok THEN steps[Len(steps)].name ELSE ""

\* the steps that end the invocation with an exception when they fail
RaisingSteps == {"setup", "navigate", "fill_case_type", "fill_case_number",
                 "fill_filing_year", "captcha", "submit"}

StepOrder == <<"setup", "navigate", "fill_case_type", "fill_case_number",
               "fill_filing_year", "captcha", "submit", "extract", "orders">>

\* C1: every invocation of search_case_details that has ended made exactly
\* one save_search_record call, whatever its outcome (success, no case
\* found, or a failed step).
C1_ExactlyOnePersistenceCall == Ended => SaveCount = 1

\* C2: _cleanup is called exactly once per invocation on every exit path:
\* not before the invocation ends, and exactly once when it has ended by a
\* returned record, a no-case-found return or a raised exception.
C2_ReleaseExactlyOnce ==
    /\ Ended => CleanupCount = 1
    /\ pc \notin {"done", "idle"} => CleanupCount = 0

C2_Witness ==
    /\ Ended
    /\ outcome = "raised"
    /\ FailedStep = "setup"
    /\ CleanupCount = 1

\* C3: on every terminal transition the session release is preceded by a
\* persistence call of the same invocation.
C3_PersistBeforeRelease ==
    \A i \in DOMAIN events :
        events[i] = "cleanup" => \E j \in 1..(i - 1) : events[j] = "save"

\* C4: _cleanup never propagates an exception, also when quit() raised on a
\* crashed browser, and no browser is quit twice, also when _cleanup is
\* called again after the release of the invocation.
C4_ReleaseNeverRaises ==
    /\ cleanupExc = NoStr
    /\ \A i, j \in DOMAIN quitLog : quitLog[i] = quitLog[j] => i = j

C4_Witness ==
    /\ Ended
    /\ extraCleanups = 1
    /\ quitLog # <<>>
    /\ browsers[quitLog[Len(quitLog)]] = "crashed"

\* C5: the steps are attempted in the order setup, navigate, fill case type,
\* fill case number, fill filing year, verification, submit, extraction, and
\* every step before the last attempted one succeeded.
C5_StepsInOrderUntilFirstFailure ==
    /\ Len(steps) <= Len(StepOrder)
    /\ \A i \in DOMAIN steps :
        /\ steps[i].name = StepOrder[i]
        /\ i < Len(steps) => steps[i].ok

C5_Witness ==
    /\ Ended
    /\ FailedStep = "captcha"
    /\ Len(steps) = 6

\* C6: when every step up to submission succeeded and extract_case_data
\* yields no record, the invocation returns None, raises nothing and does
\* not attempt order extraction.
C6_NotFoundIsNormalReturn ==
    (FailedStep = "extract" /\ pc \in {"finally", "done"}) =>
        /\ outcome \in {"returning", "returned"}
        /\ retval = NoneRec
        /\ raisedMsg = NoStr
        /\ \A i \in DOMAIN steps : steps[i].name # "orders"
        /\ (Ended /\ args.ui) => uiResult = "not found"

C6_Witness ==
    /\ Ended
    /\ FailedStep = "extract"
    /\ outcome = "returned"
    /\ args.ui

\* C7: an invocation that failed at session creation, navigation, form
\* fill, verification or submission made a save call with success = false
\* whose error_message is the message raised to the caller, whose
\* case_number is "<type> <number>/<year>" and which stores no case data.
C7_FailureRecordPersisted ==
    (Ended /\ FailedStep \in RaisingSteps) =>
        /\ outcome = "raised"
        /\ SaveCount = 1
        /\ LET call == saveCalls[1]
               row == SearchHistoryRow(call.case_data, call.success, call.error_message) IN
            /\ call.success = FALSE
            /\ row.success = FALSE
            /\ row.error_message = raisedMsg
            /\ row.case_number =
                 args.case_type \o " " \o args.case_number \o "/" \o ToString(args.filing_year)
            /\ row.case_data = <<"null">>
            /\ call.committed => (db # <<>> /\ db[Len(db)] = row)

C7_Witness ==
    /\ Ended
    /\ FailedStep = "navigate"
    /\ raisedMsg = MsgUnknown
    /\ saveCalls[1].committed

NotAllDigits(s) == s = "" \/ \E i \in 1..Len(s) : Char(s, i) \notin Digits

\* C9: a request from the form whose case_number is empty or contains a
\* non-digit character is rejected: no pipeline step runs (no browser
\* session is created) and no save call is made for it.
C9_InvalidNumberRejected ==
    (reqRaw # NoStr /\ NotAllDigits(reqRaw)) =>
        /\ pc = "idle"
        /\ uiError # ""
        /\ steps = <<>>
        /\ saveCalls = <<>>
        /\ events = <<>>

C9_Witness ==
    /\ reqRaw = "1a"
    /\ pc = "idle"
    /\ invocations = 2
    /\ db # <<>>

\* C10: the percentages passed to the progress callback within one
\* invocation are non-decreasing in call order.
C10_ProgressMonotone ==
    \A i, j \in DOMAIN progress : i < j => progress[i] <= progress[j]

C10_Witness ==
    /\ Ended
    /\ outcome = "returned"
    /\ progress = <<10, 25, 40, 60, 70, 85, 95, 100>>

\* the save calls of the current invocation as the store sees them
Saved ==
    [i \in DOMAIN saveCalls |->
        [case_data |-> saveCalls[i].case_data, success |-> saveCalls[i].success,
         error_message |-> saveCalls[i].error_message]]

\* the invocation that just ended and the one before it had the same query
\* and the same answers of the site, one with and one without a callback
TwinInvocations ==
    /\ Ended
    /\ prev.valid
    /\ prev.case_type = args.case_type
    /\ prev.case_number = args.case_number
    /\ prev.filing_year = args.filing_year
    /\ prev.env = env
    /\ prev.progress_callback # args.progress_callback

\* C11: two invocations with the same query and the same behaviour of the
\* target page, one with and one without a progress callback, perform the
\* same steps, make the same save calls and end with the same result.
C11_CallbackAbsenceChangesNothing ==
    TwinInvocations =>
        /\ prev.steps = steps
        /\ prev.saved = Saved
        /\ prev.outcome = outcome
        /\ prev.retval = retval
        /\ prev.raisedMsg = raisedMsg

C11_Witness ==
    /\ TwinInvocations
    /\ ~args.progress_callback
    /\ outcome = "returned"
    /\ retval # NoneRec
    /\ "orders" \in DOMAIN retval

----------------------------------------------------------------------------
(* Two threads calling search_case_details on one CourtScraper object.     *)
(* Each access to self.driver, self.form_handler and self.data_extractor   *)
(* is one step; the save calls are left out.                               *)

mainLocals == <<pc, args, error_message, case_data, exc, steps, progress, saveCalls, events,
                outcome, retval, raisedMsg, db, cleanupExc, invocations, extraCleanups, uiVars,
                env, prev, pureVars>>

Goto(t, p) == tpc' = [tpc EXCEPT ![t] = p]

Touch(t, b, op) == touched' = touched \cup {<<t, b, op>>}

\* the steps that go through self.form_handler, in program order
FormSteps == <<"fill", "captcha", "submit">>

T_Call(t) ==
    /\ tpc[t] = "idle"
    /\ Goto(t, "create")
    /\ UNCHANGED <<scraperVars, browsers, quitLog, acquired, touched, mainLocals>>

\* self.driver = WebDriverManager.create_driver()
T_CreateDriver(t) ==
    /\ tpc[t] = "create"
    /\ \E ok \in BOOLEAN :
        IF ok
        THEN /\ browsers' = Append(browsers, "running")
             /\ driver' = Len(browsers) + 1
             /\ acquired' = [acquired EXCEPT ![t] = Len(browsers) + 1]
             /\ Goto(t, "form_handler")
        ELSE /\ Goto(t, "cleanup")
             /\ UNCHANGED <<browsers, driver, acquired>>
    /\ UNCHANGED <<form_handler, data_extractor, quitLog, touched, mainLocals>>

\* self.form_handler = FormHandler(self.driver)
T_MakeFormHandler(t) ==
    /\ tpc[t] = "form_handler"
    /\ form_handler' = driver
    /\ Goto(t, "data_extractor")
    /\ UNCHANGED <<driver, data_extractor, browsers, quitLog, acquired, touched, mainLocals>>

\* self.data_extractor = DataExtractor(self.driver, self.BASE_URL)
T_MakeDataExtractor(t) ==
    /\ tpc[t] = "data_extractor"
    /\ data_extractor' = driver
    /\ Goto(t, "navigate")
    /\ UNCHANGED <<driver, form_handler, browsers, quitLog, acquired, touched, mainLocals>>

\* one call through a reference of the scraper: AttributeError when the
\* reference or the driver behind it is None, else the browser is driven
Drive(t, ref, op, next) ==
    IF ref = 0
    THEN /\ Goto(t, "cleanup")
         /\ UNCHANGED touched
    ELSE /\ Touch(t, ref, op)
         /\ \E ok \in BOOLEAN : Goto(t, IF ok THEN next ELSE "cleanup")

\* self.driver.get(self.SEARCH_URL)
T_Navigate(t) ==
    /\ tpc[t] = "navigate"
    /\ Drive(t, driver, "get", "fill")
    /\ UNCHANGED <<scraperVars, browsers, quitLog, acquired, mainLocals>>

\* self.form_handler.fill_*(), solve_captcha(), submit_form()
T_FormStep(t) ==
    /\ \E i \in DOMAIN FormSteps :
        /\ tpc[t] = FormSteps[i]
        /\ Drive(t, form_handler, "form",
                 IF i < Len(FormSteps) THEN FormSteps[i + 1] ELSE "extract")
    /\ UNCHANGED <<scraperVars, browsers, quitLog, acquired, mainLocals>>

\* self.data_extractor.extract_case_data(...)
T_Extract(t) ==
    /\ tpc[t] = "extract"
    /\ Drive(t, data_extractor, "read", "cleanup")
    /\ UNCHANGED <<scraperVars, browsers, quitLog, acquired, mainLocals>>

\* _cleanup: if self.driver:
T_CleanupTest(t) ==
    /\ tpc[t] = "cleanup"
    /\ Goto(t, IF driver # 0 THEN "quit" ELSE "done")
    /\ UNCHANGED <<scraperVars, browsers, quitLog, acquired, touched, mainLocals>>

\* _cleanup: self.driver.quit(); an AttributeError on None is caught
T_Quit(t) ==
    /\ tpc[t] = "quit"
    /\ IF driver # 0
       THEN /\ quitLog' = Append(quitLog, driver)
            /\ browsers' = [browsers EXCEPT ![driver] = "quit"]
            /\ Touch(t, driver, "quit")
       ELSE UNCHANGED <<quitLog, browsers, touched>>
    /\ Goto(t, "reset")
    /\ UNCHANGED <<scraperVars, acquired, mainLocals>>

\* _cleanup: the references are reset to None
T_Reset(t) ==
    /\ tpc[t] = "reset"
    /\ touched' = touched \cup {<<t, b, "clear">> : b \in {driver, form_handler, data_extractor} \ {0}}
    /\ driver' = 0
    /\ form_handler' = 0
    /\ data_extractor' = 0
    /\ Goto(t, "done")
    /\ UNCHANGED <<browsers, quitLog, acquired, mainLocals>>

NextConc ==
    \/ \E t \in Threads : T_Call(t)
    \/ \E t \in Threads : T_CreateDriver(t)
    \/ \E t \in Threads : T_MakeFormHandler(t)
    \/ \E t \in Threads : T_MakeDataExtractor(t)
    \/ \E t \in Threads : T_Navigate(t)
    \/ \E t \in Threads : T_FormStep(t)
    \/ \E t \in Threads : T_Extract(t)
    \/ \E t \in Threads : T_CleanupTest(t)
    \/ \E t \in Threads : T_Quit(t)
    \/ \E t \in Threads : T_Reset(t)

SpecConc == Init /\ [][NextConc]_vars

\* C12: whatever browser a thread drives, quits or clears from the scraper
\* is the browser that thread's own create_driver call returned.
C12_OwnSessionOnly ==
    \A x \in touched : x[2] = acquired[x[1]]

\* whether the invocation extracted a case record / attempted the orders
Extracted == \E i \in DOMAIN steps : steps[i].name = "extract" /\ steps[i].ok
OrdersAttempted == \E i \in DOMAIN steps : steps[i].name = "orders"
OrdersFailed == \E i \in DOMAIN env : env[i] \in {"orders: raises", "orders: no table"}

\* C19: after a record is extracted the orders are fetched exactly when the
\* record has an orders link, and attached to it; the invocation then
\* returns the record and makes its save call with success = true, also
\* when the orders could not be fetched, the orders of the record being
\* empty in that case.
C19_OrdersBestEffort ==
    /\ (pc \in {"save", "finally", "done"} /\ Extracted) =>
           /\ OrdersAttempted <=> case_data.orders_link # NoStr
           /\ OrdersAttempted <=> "orders" \in DOMAIN case_data
           /\ (OrdersAttempted /\ OrdersFailed) => case_data.orders = <<>>
           /\ (OrdersAttempted /\ ~OrdersFailed) => Len(case_data.orders) = 1
    /\ (Ended /\ Extracted) =>
           /\ outcome = "returned"
           /\ retval = case_data
           /\ raisedMsg = NoStr
           /\ SaveCount = 1
           /\ saveCalls[1].success
           /\ saveCalls[1].case_data = retval
           /\ saveCalls[1].committed =>
                  (db # <<>> /\ db[Len(db)] = SearchHistoryRow(retval, TRUE, NoStr))

C19_Witness ==
    /\ Ended
    /\ Extracted
    /\ OrdersAttempted
    /\ OrdersFailed
    /\ retval.orders = <<>>
    /\ saveCalls[1].committed

\* whether extract_case_data of the invocation ran into an exception
ParseFailed == \E i \in DOMAIN env : env[i] = "parse failure"

\* C20: an invocation whose extraction ran into an unexpected parse failure
\* ends with an error, not with the return without a record that means "no
\* case found", and is not shown as "not found".
C20_ParseFailureIsError ==
    (Ended /\ ParseFailed) =>
        /\ outcome = "raised"
        /\ ~(outcome = "returned" /\ retval = NoneRec)
        /\ args.ui => uiResult # "not found"

\* the browsers quit() was called on
Released == {quitLog[i] : i \in DOMAIN quitLog}

\* C26: when an invocation has ended, quit() has been called on every
\* browser that was started, also on one whose configuration failed inside
\* create_driver.
C26_EveryBrowserQuit ==
    Ended => \A b \in DOMAIN browsers : b \in Released

\* C27: when an invocation has ended the three references of the scraper
\* are None, also when quit() raised; an invocation starts without a
\* session, and the session it uses is one that was never released before.
C27_ReferencesResetAndFresh ==
    /\ Ended => (driver = 0 /\ form_handler = 0 /\ data_extractor = 0)
    /\ pc = "setup" => driver = 0
    /\ driver # 0 => (driver \notin Released /\ form_handler = driver /\ data_extractor = driver)

C27_Witness ==
    /\ invocations = 2
    /\ driver # 0
    /\ quitLog # <<>>
    /\ browsers[quitLog[1]] = "crashed"

\* the ways an invocation that has ended can have ended
EndedAs ==
    {c \in {"success", "no case found", "failure"} :
        \/ c = "success" /\ outcome = "returned" /\ retval # NoneRec
        \/ c = "no case found" /\ outcome = "returned" /\ retval = NoneRec
        \/ c = "failure" /\ outcome = "raised"}

\* C29: every invocation that has started ends; no step of the pipeline is
\* taken twice; an invocation that has ended has ended in exactly one of
\* success, no case found and failure, after its one _cleanup call, with
\* no session held by the scraper.
C29_InvocationTerminates ==
    /\ (pc \notin {"idle", "done"}) ~> (pc = "done")
    /\ [](\A i, j \in DOMAIN steps : steps[i].name = steps[j].name => i = j)
    /\ [](Ended => /\ Cardinality(EndedAs) = 1
                   /\ CleanupCount = 1
                   /\ driver = 0)

C29_Witness ==
    /\ Ended
    /\ invocations = MaxLiveInvocations
    /\ EndedAs = {"failure"}
    /\ FailedStep = "submit"

----------------------------------------------------------------------------
(* The helper functions of DataExtractor and FormHandler, each evaluated   *)
(* on inputs drawn from bounded sets.                                      *)

MaxStatusTokens == 3

RECURSIVE Join(_)
Join(ts) == IF ts = <<>> THEN "" ELSE Head(ts) \o Join(Tail(ts))

TokenSeqs(T, n) == UNION {[1..k -> T] : k \in 0..n}

\* case-info cell texts
StatusTokens == {"[DISPOSED]", "[CLOSED]", "[PENDING]", "[", "]", " ", "FOO", " FOO "}
StatusTexts == {Join(ts) : ts \in TokenSeqs(StatusTokens, MaxStatusTokens)}

\* the number of characters other than "]" from position p on
RECURSIVE RunNotClose(_, _)
RunNotClose(s, p) ==
    IF p > Len(s) \/ Char(s, p) = "]" THEN 0 ELSE 1 + RunNotClose(s, p + 1)

\* re.search(r'\[([^\]]+)\]', s) tried from position i on: group(1) of the
\* leftmost match, NoStr if there is none
RECURSIVE SearchBracket(_, _)
SearchBracket(s, i) ==
    IF i > Len(s) THEN NoStr
    ELSE LET k == RunNotClose(s, i + 1) IN
         IF Char(s, i) = "[" /\ k >= 1 /\ i + 1 + k <= Len(s)
         THEN SubSeq(s, i + 1, i + k)
         ELSE SearchBracket(s, i + 1)

\* _extract_status with the CLOSED test ahead of the DISPOSED test
extract_status_closed_first(case_text) ==
    IF Contains(case_text, "[CLOSED]") THEN "CLOSED"
    ELSE IF Contains(case_text, "[DISPOSED]") THEN "DISPOSED"
    ELSE IF Contains(case_text, "[PENDING]") THEN "PENDING"
    ELSE IF Contains(case_text, "[") /\ Contains(case_text, "]")
         THEN LET g == SearchBracket(case_text, 1) IN
              IF g # NoStr THEN Strip(g) ELSE "ACTIVE"
    ELSE "ACTIVE"

\* DataExtractor._extract_status
extract_status(case_text) ==
    IF Contains(case_text, "[DISPOSED]") THEN "DISPOSED"
    ELSE IF Contains(case_text, "[CLOSED]") THEN "CLOSED"
    ELSE IF Contains(case_text, "[PENDING]") THEN "PENDING"
    ELSE IF Contains(case_text, "[") /\ Contains(case_text, "]")
         THEN LET g == SearchBracket(case_text, 1) IN
              IF g # NoStr THEN Strip(g) ELSE "ACTIVE"
    ELSE "ACTIVE"

pureFrame == <<scraperVars, browsers, quitLog, pc, args, error_message, case_data, exc, steps,
               progress, saveCalls, events, outcome, retval, raisedMsg, db, cleanupExc,
               invocations, extraCleanups, uiVars, env, prev, concVars>>

Evaluated(f) == fn = f /\ output # <<>>

EvalExtractStatus ==
    /\ fn = "extract_status"
    /\ output = <<>>
    /\ output' = <<extract_status(input)>>
    /\ UNCHANGED <<fn, input, pureFrame>>

\* C13 as stated: DISPOSED, CLOSED, PENDING by priority; otherwise the text
\* between the first "[" that has a "]" after it and that "]", verbatim;
\* ACTIVE for a text without brackets.
PriorityStatus(s, st) ==
    /\ Contains(s, "[DISPOSED]") => st = "DISPOSED"
    /\ (~Contains(s, "[DISPOSED]") /\ Contains(s, "[CLOSED]")) => st = "CLOSED"
    /\ (~Contains(s, "[DISPOSED]") /\ ~Contains(s, "[CLOSED]") /\ Contains(s, "[PENDING]"))
          => st = "PENDING"

NoPriorityLabel(s) ==
    ~Contains(s, "[DISPOSED]") /\ ~Contains(s, "[CLOSED]") /\ ~Contains(s, "[PENDING]")

\* positions of the bracket pairs of s: a "[" and the first "]" after it
BracketPairs(s) ==
    {p \in (1..Len(s)) \X (1..Len(s)) :
        /\ Char(s, p[1]) = "["
        /\ p[2] > p[1]
        /\ Char(s, p[2]) = "]"
        /\ \A k \in (p[1] + 1)..(p[2] - 1) : Char(s, k) # "]"}

FirstOf(pairs) == CHOOSE p \in pairs : \A q \in pairs : p[1] <= q[1]

C13_StatusVerbatim ==
    Evaluated("extract_status") =>
        LET s == input
            st == output[1] IN
        /\ PriorityStatus(s, st)
        /\ NoPriorityLabel(s) =>
            IF BracketPairs(s) # {}
            THEN LET p == FirstOf(BracketPairs(s)) IN st = SubSeq(s, p[1] + 1, p[2] - 1)
            ELSE (~Contains(s, "[") /\ ~Contains(s, "]")) => st = "ACTIVE"

\* C13 amended: the label is the text of the first bracket pair with at
\* least one character inside, with surrounding whitespace removed; ACTIVE
\* when there is no such pair.
C13_StatusTrimmedLabel ==
    Evaluated("extract_status") =>
        LET s == input
            st == output[1]
            labelled == {p \in BracketPairs(s) : p[2] > p[1] + 1} IN
        /\ PriorityStatus(s, st)
        /\ NoPriorityLabel(s) =>
            IF labelled # {}
            THEN LET p == FirstOf(labelled) IN st = Strip(SubSeq(s, p[1] + 1, p[2] - 1))
            ELSE st = "ACTIVE"

C13_Witness ==
    /\ Evaluated("extract_status")
    /\ input = "[ FOO ]"
    /\ output = <<"FOO">>

----------------------------------------------------------------------------
(* DataExtractor._extract_court_details *)

\* court-info cell texts: for each field an optional marker in one of its
\* two spellings, followed by an optional value
NextMarkers == {"NEXT DATE:", "Next Date:"}
LastMarkers == {"Last Date:", "LAST DATE:"}
CourtMarkers == {"COURT NO:", "Court No:"}
NextValues == {"", " 12.05.2024", " 12.05.2024 "}
LastValues == {"", " 01.03.2024", " 01.03.2024 "}
CourtValues == {"", " 5", " 5 "}

CourtTexts ==
    {m1 \o v1 \o m2 \o v2 \o m3 \o v3 :
        m1 \in NextMarkers \cup {""}, v1 \in NextValues,
        m2 \in LastMarkers \cup {""}, v2 \in LastValues,
        m3 \in CourtMarkers \cup {""}, v3 \in CourtValues}

\* the positions at which sub occurs in s
Occurrences(s, sub) ==
    {i \in 1..(Len(s) - Len(sub) + 1) : SubSeq(s, i, i + Len(sub) - 1) = sub}

Min(S) == CHOOSE x \in S : \A y \in S : x <= y
Max(S) == CHOOSE x \in S : \A y \in S : x >= y

\* s.split(sep)[-1]: what follows the last occurrence of sep, s if none
AfterLast(s, sep) ==
    IF Occurrences(s, sep) = {} THEN s
    ELSE SubSeq(s, Max(Occurrences(s, sep)) + Len(sep), Len(s))

\* s.split(sep)[0]: what precedes the first occurrence of sep, s if none
BeforeFirst(s, sep) ==
    IF Occurrences(s, sep) = {} THEN s
    ELSE SubSeq(s, 1, Min(Occurrences(s, sep)) - 1)

\* _extract_court_details whose next date runs to the end of the text
extract_court_details_unterminated(court_text) ==
    LET next_date ==
            IF Contains(court_text, "NEXT DATE:")
            THEN Strip(AfterLast(court_text, "NEXT DATE:"))
            ELSE IF Contains(court_text, "Next Date:")
            THEN Strip(AfterLast(court_text, "Next Date:"))
            ELSE "Not Scheduled"
        last_date ==
            IF Contains(court_text, "Last Date:")
            THEN Strip(BeforeFirst(AfterLast(court_text, "Last Date:"), "COURT NO:"))
            ELSE IF Contains(court_text, "LAST DATE:")
            THEN Strip(BeforeFirst(AfterLast(court_text, "LAST DATE:"), "COURT NO:"))
            ELSE "Not Available"
        court_no ==
            IF Contains(court_text, "COURT NO:")
            THEN Strip(AfterLast(court_text, "COURT NO:"))
            ELSE IF Contains(court_text, "Court No:")
            THEN Strip(AfterLast(court_text, "Court No:"))
            ELSE "Not Assigned"
    IN <<next_date, last_date, court_no>>

\* DataExtractor._extract_court_details
extract_court_details(court_text) ==
    LET next_date ==
            IF Contains(court_text, "NEXT DATE:")
            THEN Strip(BeforeFirst(AfterLast(court_text, "NEXT DATE:"), "Last Date:"))
            ELSE IF Contains(court_text, "Next Date:")
            THEN Strip(BeforeFirst(AfterLast(court_text, "Next Date:"), "Last Date:"))
            ELSE "Not Scheduled"
        last_date ==
            IF Contains(court_text, "Last Date:")
            THEN Strip(BeforeFirst(AfterLast(court_text, "Last Date:"), "COURT NO:"))
            ELSE IF Contains(court_text, "LAST DATE:")
            THEN Strip(BeforeFirst(AfterLast(court_text, "LAST DATE:"), "COURT NO:"))
            ELSE "Not Available"
        court_no ==
            IF Contains(court_text, "COURT NO:")
            THEN Strip(AfterLast(court_text, "COURT NO:"))
            ELSE IF Contains(court_text, "Court No:")
            THEN Strip(AfterLast(court_text, "Court No:"))
            ELSE "Not Assigned"
    IN <<next_date, last_date, court_no>>

EvalExtractCourtDetails ==
    /\ fn = "extract_court_details"
    /\ output = <<>>
    /\ output' = <<extract_court_details(input)>>
    /\ UNCHANGED <<fn, input, pureFrame>>

HasMarker(s, markers) == \E m \in markers : Contains(s, m)

CourtExample == "NEXT DATE: 12.05.2024Last Date: 01.03.2024COURT NO: 5"

\* C14: the example text yields "12.05.2024", "01.03.2024" and "5"; a field
\* whose marker is absent gets its placeholder whatever the other markers do
\* (so a text without markers yields the three placeholders).
C14_ExampleAndPlaceholders ==
    Evaluated("extract_court_details") =>
        LET r == output[1] IN
        /\ input = CourtExample => r = <<"12.05.2024", "01.03.2024", "5">>
        /\ ~HasMarker(input, NextMarkers) => r[1] = "Not Scheduled"
        /\ ~HasMarker(input, LastMarkers) => r[2] = "Not Available"
        /\ ~HasMarker(input, CourtMarkers) => r[3] = "Not Assigned"

C14_Witness ==
    /\ Evaluated("extract_court_details")
    /\ input = " 12.05.2024Last Date: 01.03.2024"
    /\ output[1] = <<"Not Scheduled", "01.03.2024", "Not Assigned">>

\* the position and the marker of the one occurrence of a field's marker
MarkerAt(s, markers) ==
    CHOOSE pm \in (1..Len(s)) \X markers : pm[1] \in Occurrences(s, pm[2])

MarkersInOrder(s) ==
    /\ HasMarker(s, NextMarkers) /\ HasMarker(s, LastMarkers) /\ HasMarker(s, CourtMarkers)
    /\ MarkerAt(s, NextMarkers)[1] < MarkerAt(s, LastMarkers)[1]
    /\ MarkerAt(s, LastMarkers)[1] < MarkerAt(s, CourtMarkers)[1]

\* C15: with the three markers in order, in any of their spellings, each
\* value is the trimmed text between its marker and the next marker (the
\* end of the text for the court number).
C15_ValuesBetweenMarkers ==
    (Evaluated("extract_court_details") /\ MarkersInOrder(input)) =>
        LET s == input
            r == output[1]
            n == MarkerAt(s, NextMarkers)
            l == MarkerAt(s, LastMarkers)
            c == MarkerAt(s, CourtMarkers) IN
        /\ r[1] = Strip(SubSeq(s, n[1] + Len(n[2]), l[1] - 1))
        /\ r[2] = Strip(SubSeq(s, l[1] + Len(l[2]), c[1] - 1))
        /\ r[3] = Strip(SubSeq(s, c[1] + Len(c[2]), Len(s)))

----------------------------------------------------------------------------
(* DataExtractor.extract_orders_data and _parse_order_row *)

MaxOrderRows == 3

UpperLetters == "ABCDEFGHIJKLMNOPQRSTUVWXYZ"
LowerLetters == "abcdefghijklmnopqrstuvwxyz"

\* str.lower()
RECURSIVE Lower(_)
Lower(s) ==
    IF s = "" THEN ""
    ELSE LET c == Char(s, 1)
             at == {i \in 1..Len(UpperLetters) : Char(UpperLetters, i) = c} IN
         (IF at = {} THEN c ELSE Char(LowerLetters, Min(at))) \o Lower(SubSeq(s, 2, Len(s)))

\* href attributes of an anchor in an orders row
OrderHrefs ==
    {"", "orders/order1.pdf", "/orders/order1.pdf",
     "https://delhihighcourt.nic.in/orders/order1.pdf", "httpdocs/order1.pdf"}

PageRowKinds ==
    {OrderRow(c, f, h) : c \in {1, 2, 3}, f \in {"no", "parse", "cells"},
                         h \in {NoStr, "orders/order1.pdf"}}

OrdersPageInputs ==
    {OrdersPage("raises", FALSE, FALSE, <<>>), OrdersPage("ok", FALSE, FALSE, <<>>)}
    \cup {OrdersPage("ok", TRUE, b, r) :
            b \in BOOLEAN, r \in TokenSeqs(PageRowKinds, MaxOrderRows)}

EvalExtractOrdersData ==
    /\ fn = "extract_orders_data"
    /\ output = <<>>
    /\ output' = <<extract_orders_data(input)>>
    /\ UNCHANGED <<fn, input, pureFrame>>

\* the body rows that have at least 2 cells and parse
ParsingRows(rows) ==
    {i \in 1..Len(rows) : rows[i].cells >= 2 /\ rows[i].fails = "no"}

\* C16: the orders returned are exactly the body rows with at least 2 cells
\* that parse, in page order, whatever the other rows do; a page that fails
\* to load or has no orders table gives the empty sequence.
C16_RowsParsedIndependently ==
    Evaluated("extract_orders_data") =>
        LET page == input
            orders == output[1]
            rows == BodyRows(page) IN
        IF page.nav = "raises" \/ ~page.table THEN orders = <<>>
        ELSE /\ {orders[k].order_index : k \in 1..Len(orders)} = ParsingRows(rows)
             /\ \A k \in 1..(Len(orders) - 1) :
                    orders[k].order_index < orders[k + 1].order_index
             /\ \A k \in 1..Len(orders) :
                    orders[k] = parse_order_row(rows[orders[k].order_index],
                                                orders[k].order_index - 1)

C16_Witness ==
    /\ Evaluated("extract_orders_data")
    /\ input.table /\ input.tbody /\ Len(input.trs) = 3
    /\ input.trs[1].cells = 3 /\ input.trs[1].fails = "no"
    /\ input.trs[2].fails = "cells"
    /\ input.trs[3].cells = 2 /\ input.trs[3].fails = "no"
    /\ Len(output[1]) = 2
    /\ output[1][2].order_index = 3

----------------------------------------------------------------------------
(* DataExtractor._extract_orders_link *)

MaxAnchors == 2

\* href attributes of the anchors of a case-info cell
CaseHrefs ==
    {"app/case-orders?id=1", "/app/case-orders?id=1",
     "https://delhihighcourt.nic.in/app/case-orders?id=1",
     "httpdocs/orders/1", "Case-Status/1", "about.html"}

\* a case-info cell: None, or the hrefs of its anchors in document order
Cell(p, hs) == [present |-> p, hrefs |-> hs]

CellInputs == {Cell(FALSE, <<>>)} \cup {Cell(TRUE, hs) : hs \in TokenSeqs(CaseHrefs, MaxAnchors)}

\* any(keyword in href.lower() for keyword in ['order', 'status', 'detail'])
IsOrdersHref(href) ==
    \E keyword \in {"order", "status", "detail"} : Contains(Lower(href), keyword)

\* DataExtractor._extract_orders_link
RECURSIVE LinkScan(_, _)
LinkScan(hrefs, i) ==
    IF i > Len(hrefs) THEN NoStr
    ELSE IF IsOrdersHref(hrefs[i])
    THEN IF StartsWith(hrefs[i], "http") THEN hrefs[i] ELSE UrlJoin(BASE_URL, hrefs[i])
    ELSE LinkScan(hrefs, i + 1)

extract_orders_link(cell) == IF ~cell.present THEN NoStr ELSE LinkScan(cell.hrefs, 1)

EvalExtractOrdersLink ==
    /\ fn = "extract_orders_link"
    /\ output = <<>>
    /\ output' = <<extract_orders_link(input)>>
    /\ UNCHANGED <<fn, input, pureFrame>>

\* the arguments of one _parse_order_row call
RowInputs ==
    {[row |-> OrderRow(c, f, h), index |-> i] :
        c \in {2, 3}, f \in {"no", "parse"}, h \in OrderHrefs \cup {NoStr}, i \in {0, 1}}

EvalParseOrderRow ==
    /\ fn = "parse_order_row"
    /\ output = <<>>
    /\ output' = <<parse_order_row(input.row, input.index)>>
    /\ UNCHANGED <<fn, input, pureFrame>>

IsAbsoluteUrl(href) == StartsWith(href, "http://") \/ StartsWith(href, "https://")
IsRelativeUrl(href) == href # "" /\ href # NoStr /\ ~IsAbsoluteUrl(href)

\* the link is the href when that is absolute, and the href resolved
\* against the base URL of the site when it is relative
LinkResolved(href, link) ==
    /\ IsAbsoluteUrl(href) => link = href
    /\ IsRelativeUrl(href) => (link = UrlJoin(BASE_URL, href) /\ IsAbsoluteUrl(link))

\* C17: the orders link of a case row and the document link of an order row
\* are the href unchanged when it is absolute and resolved against the base
\* URL when it is relative; an order row without a usable link has document
\* link None and its date and description populated.
C17_LinksResolved ==
    /\ (Evaluated("extract_orders_link") /\ input.present) =>
           \A i \in 1..Len(input.hrefs) :
               (IsOrdersHref(input.hrefs[i])
                  /\ \A j \in 1..(i - 1) : ~IsOrdersHref(input.hrefs[j]))
               => LinkResolved(input.hrefs[i], output[1])
    /\ (Evaluated("parse_order_row") /\ input.row.fails = "no") =>
           LET href == input.row.href
               order == output[1] IN
           /\ LinkResolved(href, order.pdf_link)
           /\ (href = NoStr \/ href = "") =>
                  /\ order.pdf_link = NoStr
                  /\ order.date # ""
                  /\ order.case_info # ""

----------------------------------------------------------------------------
(* FormHandler.fill_case_type, fill_case_number, fill_filing_year *)

\* the candidate locators of each field, in list order
CaseTypeSelectors ==
    <<"name=case_type", "id=case_type",
      "//select[contains(@name, 'case') and contains(@name, 'type')]",
      "//select[contains(@id, 'case_type')]">>

CaseNumberSelectors ==
    <<"name=case_no", "name=case_number", "id=case_no", "id=case_number",
      "//input[contains(@name, 'case') and contains(@name, 'no')]",
      "//input[contains(@placeholder, 'case')]">>

FilingYearSelectors ==
    <<"name=case_year", "name=year", "name=filing_year", "id=case_year", "id=year",
      "//select[contains(@name, 'year')]">>

\* what the page does with one candidate.  Dropdown of the case type:
\* "absent" (the wait for the element raises), "exact" (the exact text is an
\* option), "partial" (only an option containing the text), "nomatch" (no
\* option contains it), "raises" (selecting the partial match raises).
CaseTypeOutcomes == {"absent", "exact", "partial", "nomatch", "raises"}
\* Input of the case number: "absent", "sticks" (the value read back is the
\* value sent), "differs" (it is not), "raises" (clear or send_keys raises).
CaseNumberOutcomes == {"absent", "sticks", "differs", "raises"}
\* Dropdown of the filing year: "absent", "by_value", "by_text" (selecting by
\* value raises, by text works), "nomatch" (both raise).
FilingYearOutcomes == {"absent", "by_value", "by_text", "nomatch"}

\* the for loop over the selectors from candidate i on: returns True at the
\* first candidate whose outcome is a returning one, False after the last
RECURSIVE TrySelectors(_, _, _, _)
TrySelectors(page, returning, i, tried) ==
    IF i > Len(page) THEN [result |-> FALSE, tried |-> tried]
    ELSE IF page[i] \in returning THEN [result |-> TRUE, tried |-> Append(tried, i)]
    ELSE TrySelectors(page, returning, i + 1, Append(tried, i))

\* FormHandler.fill_case_type
fill_case_type(page) == TrySelectors(page, {"exact", "partial"}, 1, <<>>)

\* fill_case_number that gives up when its first candidate fails
fill_case_number_first_only(page) ==
    [result |-> page[1] = "sticks", tried |-> <<1>>]

\* FormHandler.fill_case_number
fill_case_number(page) == TrySelectors(page, {"sticks"}, 1, <<>>)

\* FormHandler.fill_filing_year
fill_filing_year(page) == TrySelectors(page, {"by_value", "by_text"}, 1, <<>>)

EvalFillCaseType ==
    /\ fn = "fill_case_type"
    /\ output = <<>>
    /\ output' = <<fill_case_type(input)>>
    /\ UNCHANGED <<fn, input, pureFrame>>

EvalFillCaseNumber ==
    /\ fn = "fill_case_number"
    /\ output = <<>>
    /\ output' = <<fill_case_number(input)>>
    /\ UNCHANGED <<fn, input, pureFrame>>

EvalFillFilingYear ==
    /\ fn = "fill_filing_year"
    /\ output = <<>>
    /\ output' = <<fill_filing_year(input)>>
    /\ UNCHANGED <<fn, input, pureFrame>>

\* the candidates of the page that match, for the field being filled
Matching(f, page) ==
    {i \in 1..Len(page) :
        page[i] \in (IF f = "fill_case_type" THEN {"exact", "partial"}
                     ELSE IF f = "fill_case_number" THEN {"sticks"}
                     ELSE {"by_value", "by_text"})}

\* C18: the candidates tried are 1, 2, ... up to the first that matches (all
\* of them when none matches), and the fill reports true exactly when one
\* matches.
C18_FallbackInOrder ==
    \A f \in {"fill_case_type", "fill_case_number", "fill_filing_year"} :
        Evaluated(f) =>
            LET m == Matching(f, input)
                last == IF m = {} THEN Len(input) ELSE Min(m) IN
            /\ output[1].tried = [k \in 1..last |-> k]
            /\ output[1].result = (m # {})

C18_Witness ==
    /\ Evaluated("fill_case_number")
    /\ input[1] = "absent" /\ input[2] = "differs" /\ input[3] = "sticks"
    /\ output[1] = [result |-> TRUE, tried |-> <<1, 2, 3>>]

----------------------------------------------------------------------------
(* DataExtractor.extract_case_data *)

MaxCaseRows == 3

\* rows of a results table: 2 or 3 cells, parsing or not, with or without
\* an orders link
CaseRowKinds ==
    {CaseRow(c, f, l) : c \in {2, 3}, f \in {"no", "parse"}, l \in OrdersLinks}

\* the arguments of one extract_case_data call and the page it reads
CaseInputs ==
    {[page |-> pg, case_type |-> t, case_number |-> "12", filing_year |-> 2024] :
        t \in CaseTypes,
        pg \in {CasePage("raises", FALSE, FALSE, <<>>), CasePage("ok", FALSE, FALSE, <<>>)}
               \cup {CasePage("ok", TRUE, b, r) :
                       b \in BOOLEAN, r \in TokenSeqs(CaseRowKinds, MaxCaseRows)}}

EvalExtractCaseData ==
    /\ fn = "extract_case_data"
    /\ output = <<>>
    /\ output' = <<extract_case_data(input.page, input.case_type, input.case_number,
                                     input.filing_year)>>
    /\ UNCHANGED <<fn, input, pureFrame>>

\* the rows after the header: all <tr> of a tbody, all but the first <tr> of
\* a table without tbody
RowsAfterHeader(page) ==
    IF page.tbody THEN page.trs
    ELSE [i \in 1..(Len(page.trs) - 1) |-> page.trs[i + 1]]

\* C21: the record returned is the one parsed from the first body row with
\* at least 3 cells that parses, its case_number being "<type> <number>/<year>"
\* of the query; for a page that is read without an exception, None is
\* returned exactly when there is no results table, no body row, or no such
\* row; the first row of a table without tbody is not a body row.
C21_FirstParsingRow ==
    Evaluated("extract_case_data") =>
        LET page == input.page
            rows == RowsAfterHeader(page)
            candidates == {i \in 1..Len(rows) : rows[i].cells >= 3 /\ rows[i].fails = "no"}
            cd == output[1] IN
        /\ page.source = "ok" =>
               (cd = NoneRec <=> (~page.table \/ rows = <<>> \/ candidates = {}))
        /\ cd # NoneRec =>
            /\ cd.orders_link = rows[Min(candidates)].link
            /\ cd.case_type = input.case_type
            /\ cd.case_number = input.case_type \o " " \o input.case_number \o "/2024"

C21_Witness ==
    /\ Evaluated("extract_case_data")
    /\ ~input.page.tbody
    /\ Len(input.page.trs) = 3
    /\ input.page.trs[1].cells = 3 /\ input.page.trs[1].fails = "no"
    /\ input.page.trs[2].cells = 2
    /\ input.page.trs[3].cells = 3 /\ input.page.trs[3].fails = "no"
    /\ output[1] # NoneRec
    /\ output[1].orders_link = input.page.trs[3].link

----------------------------------------------------------------------------
(* FormHandler.fill_case_number on fields that keep or alter what is typed *)

\* how a candidate input field behaves: "absent" (the wait raises), "raises"
\* (clear or send_keys raises), "keeps" (it holds what was typed),
\* "readonly" (it stays empty), "truncates" (it holds the first character)
FieldKinds == {"absent", "raises", "keeps", "readonly", "truncates"}

\* element.get_attribute('value') after clear() and send_keys(typed)
Reread(kind, typed) ==
    IF kind = "keeps" THEN typed
    ELSE IF kind = "truncates" THEN SubSeq(typed, 1, 1)
    ELSE ""

\* the loop body of fill_case_number without the comparison of the value
FieldOutcomeUnchecked(kind, case_number) ==
    IF kind \in {"absent", "raises"} THEN kind ELSE "sticks"

\* the loop body of fill_case_number on one candidate field
FieldOutcome(kind, case_number) ==
    IF kind \in {"absent", "raises"} THEN kind
    ELSE IF Reread(kind, case_number) = case_number THEN "sticks"
    ELSE "differs"

TypedNumbers == {"12", "7"}

FieldInputs ==
    {[fields |-> fs, case_number |-> n] :
        fs \in [1..Len(CaseNumberSelectors) -> FieldKinds], n \in TypedNumbers}

EvalFillCaseNumberOnFields ==
    /\ fn = "fill_case_number on fields"
    /\ output = <<>>
    /\ output' = <<fill_case_number([i \in DOMAIN input.fields |->
                                        FieldOutcome(input.fields[i], input.case_number)])>>
    /\ UNCHANGED <<fn, input, pureFrame>>

\* candidate i exists, takes the keys and re-reads as the intended value
Confirms(i) ==
    /\ input.fields[i] \notin {"absent", "raises"}
    /\ Reread(input.fields[i], input.case_number) = input.case_number

\* C22: fill_case_number returns true only if the candidate it stopped at
\* re-reads as the intended value; a candidate whose value differs is
\* followed by the next candidate; the result is false when no candidate
\* confirms.
C22_ConfirmedByReread ==
    Evaluated("fill_case_number on fields") =>
        LET r == output[1]
            n == Len(r.tried) IN
        /\ r.result => (n > 0 /\ Confirms(r.tried[n]))
        /\ \A k \in 1..n :
              ~Confirms(r.tried[k]) =>
                  (r.tried[k] = Len(input.fields) \/ (k < n /\ r.tried[k + 1] = r.tried[k] + 1))
        /\ (\A i \in DOMAIN input.fields : ~Confirms(i)) => ~r.result

C22_Witness ==
    /\ Evaluated("fill_case_number on fields")
    /\ input.case_number = "12"
    /\ input.fields[1] = "truncates" /\ input.fields[2] = "readonly" /\ input.fields[3] = "keeps"
    /\ output[1] = [result |-> TRUE, tried |-> <<1, 2, 3>>]

----------------------------------------------------------------------------
(* FormHandler.solve_captcha *)

MaxCodeElements == 3

CaptchaSelectors ==
    <<"id=captcha-code", "class=captcha-code", "//span[contains(@class, 'captcha')]",
      "//div[contains(@class, 'captcha')]//span",
      "//*[contains(text(), 'CAPTCHA') or contains(@id, 'captcha')]">>

InputSelectors ==
    <<"name=captchaInput", "name=captcha", "id=captchaInput", "id=captcha",
      "//input[contains(@name, 'captcha')]", "//input[contains(@placeholder, 'captcha')]">>

\* reading the text of this element raises (the element went stale)
StaleText == "<stale>"

\* texts of the elements a captcha selector finds
ElementTexts == {"AB12", "CD34", "XY", StaleText}

\* str.isalnum() on ASCII text
IsAlnum(s) ==
    /\ Len(s) > 0
    /\ \A i \in 1..Len(s) :
          \/ Char(s, i) \in Digits
          \/ \E k \in 1..Len(UpperLetters) :
                Char(s, i) = Char(UpperLetters, k) \/ Char(s, i) = Char(LowerLetters, k)

\* text and len(text) >= 3 and (text.isdigit() or text.isalnum())
IsCode(text) == text # "" /\ Len(text) >= 3 /\ (IsDigit(text) \/ IsAlnum(text))

\* the elements of the page as <<selector, text>>, by selector and then in
\* element order
NonDecreasing(es) == \A i \in 1..(Len(es) - 1) : es[i][1] <= es[i + 1][1]

ElementLists ==
    {es \in TokenSeqs((1..Len(CaptchaSelectors)) \X ElementTexts, MaxCodeElements) :
        NonDecreasing(es)}

\* a page for solve_captcha: its elements, the selector whose find_elements
\* raises (0: none), and the behaviour of the candidate input fields
CaptchaPage(es, r, fs) == [elements |-> es, raising |-> r, fields |-> fs]

InputFieldKinds == {"absent", "keeps", "readonly"}

CaptchaPages ==
    {CaptchaPage(es, r, fs) :
        es \in ElementLists, r \in 0..Len(CaptchaSelectors),
        fs \in {[i \in 1..Len(InputSelectors) |-> "absent"],
                [i \in 1..Len(InputSelectors) |-> IF i = 2 THEN "keeps" ELSE "readonly"]}}
    \cup
    {CaptchaPage(es, 0, fs) :
        es \in {<<>>, <<<<1, "AB12">>>>},
        fs \in [1..Len(InputSelectors) -> InputFieldKinds]}

\* the inner loop over the elements of selector s from element j on: the
\* code found, NoStr if none, StaleText if reading a text raised
RECURSIVE ScanElements(_, _, _)
ScanElements(es, s, j) ==
    IF j > Len(es) THEN NoStr
    ELSE IF es[j][1] # s THEN ScanElements(es, s, j + 1)
    ELSE IF es[j][2] = StaleText THEN StaleText
    ELSE IF IsCode(Strip(es[j][2])) THEN Strip(es[j][2])
    ELSE ScanElements(es, s, j + 1)

\* the loop over captcha_selectors from selector s on
RECURSIVE FindCode(_, _)
FindCode(page, s) ==
    IF s > Len(CaptchaSelectors) THEN NoStr
    ELSE IF page.raising = s THEN FindCode(page, s + 1)
    ELSE LET found == ScanElements(page.elements, s, 1) IN
         IF found \in {NoStr, StaleText} THEN FindCode(page, s + 1) ELSE found

\* the loop over input_selectors from candidate i on
RECURSIVE EnterCode(_, _, _, _)
EnterCode(fields, captcha_code, i, typed) ==
    IF i > Len(fields) THEN [result |-> FALSE, code |-> captcha_code, typed |-> typed]
    ELSE IF fields[i] = "absent" THEN EnterCode(fields, captcha_code, i + 1, typed)
    ELSE IF Reread(fields[i], captcha_code) = captcha_code
    THEN [result |-> TRUE, code |-> captcha_code, typed |-> Append(typed, i)]
    ELSE EnterCode(fields, captcha_code, i + 1, Append(typed, i))

\* FormHandler.solve_captcha
solve_captcha(page) ==
    LET captcha_code == FindCode(page, 1) IN
    IF captcha_code = NoStr THEN [result |-> FALSE, code |-> NoStr, typed |-> <<>>]
    ELSE EnterCode(page.fields, captcha_code, 1, <<>>)

EvalSolveCaptcha ==
    /\ fn = "solve_captcha"
    /\ output = <<>>
    /\ output' = <<solve_captcha(input)>>
    /\ UNCHANGED <<fn, input, pureFrame>>

\* the elements whose text can be read and is a code
CodeElements(page) ==
    {j \in 1..Len(page.elements) :
        /\ page.elements[j][1] # page.raising
        /\ page.elements[j][2] # StaleText
        /\ IsCode(Strip(page.elements[j][2]))}

\* C23: the code is the first text, by selector and then by element, of
\* length at least 3 that is alphanumeric; true is returned only if a
\* candidate input re-reads as that code; without such a text the result is
\* false and nothing is typed; without an accepting input it is false.
C23_FirstCodeEntered ==
    Evaluated("solve_captcha") =>
        LET page == input
            r == output[1]
            codes == CodeElements(page) IN
        /\ codes # {} => r.code = Strip(page.elements[Min(codes)][2])
        /\ codes = {} => (~r.result /\ r.typed = <<>>)
        /\ r.result =>
              \E i \in DOMAIN page.fields :
                  page.fields[i] # "absent" /\ Reread(page.fields[i], r.code) = r.code
        /\ (\A i \in DOMAIN page.fields : page.fields[i] \in {"absent", "readonly"}) => ~r.result

----------------------------------------------------------------------------
(* FormHandler.submit_form *)

SubmitSelectors ==
    <<"//button[@id='search']", "//button[contains(@class, 'yellow-btn')]",
      "//button[contains(@class, 'search-btn')]", "//input[@type='submit']",
      "//button[@type='submit']", "//button[contains(text(), 'Search')]",
      "//button[contains(text(), 'Submit')]", "//input[contains(@value, 'Search')]">>

\* what a candidate control does: "absent" (the wait for a clickable element
\* raises), "hidden" (is_enabled() and is_displayed() is false), "raises"
\* (it is clickable, enabled and displayed, and scrolling to it or clicking
\* it raises), "clicks" (the click goes through)
ControlKinds == {"absent", "hidden", "raises", "clicks"}

SubmitPages == [1..Len(SubmitSelectors) -> ControlKinds]

\* the for loop of submit_form that goes on after a click
RECURSIVE SubmitLoopClickAll(_, _, _)
SubmitLoopClickAll(page, i, clicked) ==
    IF i > Len(page) THEN [result |-> clicked # <<>>, clicked |-> clicked]
    ELSE IF page[i] = "clicks" THEN SubmitLoopClickAll(page, i + 1, Append(clicked, i))
    ELSE SubmitLoopClickAll(page, i + 1, clicked)

\* the for loop of submit_form from candidate i on
RECURSIVE SubmitLoop(_, _, _)
SubmitLoop(page, i, clicked) ==
    IF i > Len(page) THEN [result |-> FALSE, clicked |-> clicked]
    ELSE IF page[i] = "clicks" THEN [result |-> TRUE, clicked |-> Append(clicked, i)]
    ELSE SubmitLoop(page, i + 1, clicked)

submit_form_click_all(page) == SubmitLoopClickAll(page, 1, <<>>)

\* FormHandler.submit_form
submit_form(page) == SubmitLoop(page, 1, <<>>)

EvalSubmitForm ==
    /\ fn = "submit_form"
    /\ output = <<>>
    /\ output' = <<submit_form(input)>>
    /\ UNCHANGED <<fn, input, pureFrame>>

\* the candidates that are clickable, enabled and displayed
Clickable(page) == {i \in DOMAIN page : page[i] \in {"raises", "clicks"}}
\* those of them that can be scrolled to and clicked without an exception
Working(page) == {i \in DOMAIN page : page[i] = "clicks"}

\* C24 as stated: at most one click succeeds, on the first candidate that is
\* clickable, enabled and displayed; true is returned exactly when a click
\* succeeded; when no candidate qualifies nothing is clicked and false is
\* returned.
C24_ClickFirstClickable ==
    Evaluated("submit_form") =>
        LET r == output[1] IN
        /\ Len(r.clicked) <= 1
        /\ r.clicked # <<>> => r.clicked[1] = Min(Clickable(input))
        /\ r.result <=> r.clicked # <<>>
        /\ Clickable(input) = {} => (~r.result /\ r.clicked = <<>>)

\* C24 amended: the one click that succeeds is on the first candidate that
\* is clickable, enabled and displayed and whose scroll and click do not
\* raise; true is returned exactly when there is such a candidate.
C24_ClickFirstWorking ==
    Evaluated("submit_form") =>
        LET r == output[1] IN
        /\ Len(r.clicked) <= 1
        /\ r.clicked # <<>> => r.clicked[1] = Min(Working(input))
        /\ r.result <=> r.clicked # <<>>
        /\ r.result <=> Working(input) # {}

C24_Witness ==
    /\ Evaluated("submit_form")
    /\ input[1] = "absent" /\ input[2] = "raises" /\ input[3] = "clicks" /\ input[4] = "clicks"
    /\ output[1] = [result |-> TRUE, clicked |-> <<3>>]

\* C25: the k-th order record returned has index k, also when rows of the
\* orders table were skipped.
C25_IndicesWithoutGaps ==
    Evaluated("extract_orders_data") =>
        \A k \in 1..Len(output[1]) : output[1][k].order_index = k

\* C28: the status extracted from any case-info text is a non-empty string:
\* ACTIVE, PENDING, DISPOSED, CLOSED or a non-empty bracketed label.
C28_StatusNonEmpty ==
    Evaluated("extract_status") =>
        /\ output[1] # ""
        /\ \/ output[1] \in {"ACTIVE", "PENDING", "DISPOSED", "CLOSED"}
           \/ Contains(input, "[" \o output[1] \o "]")
           \/ \E p \in BracketPairs(input) : Strip(SubSeq(input, p[1] + 1, p[2] - 1)) = output[1]

InitPure ==
    /\ MainInit
    /\ ConcIdle
    /\ output = <<>>
    /\ \/ fn = "extract_status" /\ input \in StatusTexts
       \/ fn = "extract_court_details" /\ input \in CourtTexts \cup {CourtExample}
       \/ fn = "extract_orders_data" /\ input \in OrdersPageInputs
       \/ fn = "extract_orders_link" /\ input \in CellInputs
       \/ fn = "parse_order_row" /\ input \in RowInputs
       \/ fn = "fill_case_type"
            /\ input \in [1..Len(CaseTypeSelectors) -> CaseTypeOutcomes]
       \/ fn = "fill_case_number"
            /\ input \in [1..Len(CaseNumberSelectors) -> CaseNumberOutcomes]
       \/ fn = "fill_filing_year"
            /\ input \in [1..Len(FilingYearSelectors) -> FilingYearOutcomes]
       \/ fn = "extract_case_data" /\ input \in CaseInputs
       \/ fn = "fill_case_number on fields" /\ input \in FieldInputs
       \/ fn = "solve_captcha" /\ input \in CaptchaPages
       \/ fn = "submit_form" /\ input \in SubmitPages

NextPure ==
    \/ EvalExtractStatus
    \/ EvalExtractCourtDetails
    \/ EvalExtractOrdersData
    \/ EvalExtractOrdersLink
    \/ EvalParseOrderRow
    \/ EvalFillCaseType
    \/ EvalFillCaseNumber
    \/ EvalFillFilingYear
    \/ EvalExtractCaseData
    \/ EvalFillCaseNumberOnFields
    \/ EvalSolveCaptcha
    \/ EvalSubmitForm

SpecPure == InitPure /\ [][NextPure]_vars

====
